---- MODULE Spec2Model ----
(***************************************************************************)
(* Model of akingspice::UltraKLUSolver (src/wasm/cpp/klu_interface.cpp):   *)
(* the wrapper around the KLU symbolic analysis, numeric factorization and *)
(* triangular solve.  The KLU routines themselves are outside the          *)
(* repository; each call is modelled by the outcomes its call site         *)
(* distinguishes (a handle or NULL, status 1 or not), chosen               *)
(* nondeterministically.                                                   *)
(***************************************************************************)
EXTENDS Integers, Sequences, FiniteSets, TLC

\* ---------------------------------------------------------------- bounds
\* largest matrix dimension of the patterns, values and right-hand sides tried
MaxN == 1
\* number of artifacts (symbolic and numeric together) that klu_analyze and
\* klu_factor may create in one run
MaxAllocs == 3

\* ---------------------------------------------------------------- inputs
\* nullptr
Null == [id |-> 0]

\* sample doubles: measured durations, condition estimates, indeterminate values
Doubles == {0, 1}

\* sample values of symbolic_->lnz, the library's predicted nonzero count of the
\* factor L of an n x n matrix, diagonal included: the n diagonal entries alone,
\* or one entry more
LnzSet(n) == {n, n + 1}

\* CSC pattern of the n x n diagonal matrix: Ap = 0,1,..,n  Ai = 0,..,n-1
DiagPattern(n) ==
    [n |-> n, Ap |-> [i \in 1..(n + 1) |-> i - 1], Ai |-> [i \in 1..n |-> i - 1]]

\* a degenerate pattern: column pointers not non-decreasing
BadPattern == [n |-> 2, Ap |-> <<0, 2, 1>>, Ai |-> <<0, 1>>]

\* a pattern with a negative dimension
NegPattern == [n |-> -1, Ap |-> <<0>>, Ai |-> <<>>]

\* a valid pattern without nonzeros: the 1 x 1 zero matrix
ZeroPattern == [n |-> 1, Ap |-> <<0, 0>>, Ai |-> <<>>]

\* the full 2 x 2 pattern: four nonzeros
FullPattern == [n |-> 2, Ap |-> <<0, 2, 4>>, Ai |-> <<0, 1, 0, 1>>]

\* the patterns tried, well-formed and not
PatternSeq ==
    [n \in 1..MaxN |-> DiagPattern(n)]
        \o <<FullPattern, DiagPattern(0), ZeroPattern, BadPattern, NegPattern>>

\* a well-formed CSC pattern: n + 1 non-decreasing column pointers starting at 0,
\* one row index in [0, n) per nonzero
ValidPattern(n, Ap, Ai) ==
    /\ n >= 0
    /\ Len(Ap) = n + 1
    /\ Ap[1] = 0
    /\ \A j \in 1..n : Ap[j] <= Ap[j + 1]
    /\ Len(Ai) = Ap[n + 1]
    /\ \A i \in 1..Len(Ai) : Ai[i] >= 0 /\ Ai[i] < n

\* value arrays of every length 1..MaxN, each with two different contents (all
\* 2.0, all 3.0), and the empty array
ValueSeq ==
    [k \in 1..(2 * MaxN) |-> [i \in 1..((k + 1) \div 2) |-> 2 + ((k + 1) % 2)]]
        \o << <<>> >>

\* right-hand sides of every length 0..MaxN
RhsSeq == [k \in 1..(MaxN + 1) |-> [i \in 1..(k - 1) |-> i]]

\* ---------------------------------------------------------------- state
VARIABLES
    symbolic_, numeric_, n_, Ap_, Ai_, isAnalyzed_, isFactorized_,
    lastFactorTime_, lastSolveTime_,
    liveSym, freedSym, liveNum, freedNum, badFree,
    written,
    lastOp, arg, ret, result, resultAssigned, stats, calls, pre, peak, warned

fields == <<symbolic_, numeric_, n_, Ap_, Ai_, isAnalyzed_, isFactorized_,
            lastFactorTime_, lastSolveTime_>>

heap == <<liveSym, freedSym, liveNum, freedNum, badFree>>

vars == <<symbolic_, numeric_, n_, Ap_, Ai_, isAnalyzed_, isFactorized_,
          lastFactorTime_, lastSolveTime_,
          liveSym, freedSym, liveNum, freedNum, badFree,
          written,
          lastOp, arg, ret, result, resultAssigned, stats, calls, pre, peak, warned>>

\* the three lifecycle states of the specification, read off the two flags
State ==
    IF isFactorized_ /\ isAnalyzed_ THEN "Factorized"
    ELSE IF isAnalyzed_ /\ ~isFactorized_ THEN "Analyzed"
    ELSE IF ~isAnalyzed_ /\ ~isFactorized_ THEN "Empty"
    ELSE "Invalid"

\* what an operation found when it was called: the operation before it, the
\* lifecycle state, the two handles and the values the numeric object was built
\* from
Snapshot ==
    [op |-> lastOp, state |-> State, symbolic |-> symbolic_.id, numeric |-> numeric_.id,
     values |-> IF numeric_ # Null THEN numeric_.values ELSE <<>>]

NoValue == [kind |-> "none"]

\* a call into KLU: the routine and the handles passed to it
Call(fn, sym, num) == [fn |-> fn, sym |-> sym, num |-> num]

CallNames == {calls[i].fn : i \in 1..Len(calls)}

Max(a, b) == IF a >= b THEN a ELSE b

\* the largest number of live symbolic (sym) and numeric (num) artifacts at any
\* point of an operation that passes through the live sets given, in order
Peak(symSets, numSets) ==
    [sym |-> Max(Max(Cardinality(symSets[1]), Cardinality(symSets[2])),
                 Cardinality(symSets[3])),
     num |-> Max(Max(Cardinality(numSets[1]), Cardinality(numSets[2])),
                 Cardinality(numSets[3]))]

\* an operation that neither creates nor releases an artifact
PeakUnchanged == Peak(<<liveSym, liveSym, liveSym>>, <<liveNum, liveNum, liveNum>>)

\* rhs.size() != static_cast<size_t>(n_): a negative n_ converts to a value of
\* at least 2^31, which no vector<double> size reaches, so it never compares equal
SizeDiffers(size, n) == n < 0 \/ size # n

\* ---------------------------------------------------------------- Init
\* The constructor (lines 78-79) initialises the handles, n_ and the flags.  It
\* leaves lastFactorTime_ and lastSolveTime_ uninitialised: written is the set of
\* these two fields that have been assigned, and a field not in it holds no
\* determinate value (the 0 stands for it; a read of it yields any double).
Init ==
    /\ symbolic_ = Null
    /\ numeric_ = Null
    /\ n_ = 0
    /\ Ap_ = <<>>
    /\ Ai_ = <<>>
    /\ isAnalyzed_ = FALSE
    /\ isFactorized_ = FALSE
    /\ lastFactorTime_ = 0
    /\ lastSolveTime_ = 0
    /\ written = {}
    /\ liveSym = {}
    /\ freedSym = {}
    /\ liveNum = {}
    /\ freedNum = {}
    /\ badFree = FALSE
    /\ lastOp = "constructor"
    /\ arg = NoValue
    /\ ret = FALSE
    /\ result = NoValue
    /\ resultAssigned = {}
    /\ stats = NoValue
    /\ calls = <<>>
    /\ pre = NoValue
    /\ peak = [sym |-> 0, num |-> 0]
    /\ warned = FALSE

\* ------------------------------------------------------- analyzeStructure
\* a variant that reports every analysis as successful
IsAnalyzedAfterAnalyze_Always(sym) == TRUE

\* line 126: isAnalyzed_ = (symbolic_ != nullptr)
IsAnalyzedAfterAnalyze(sym) == sym # Null

\* a variant that leaves isFactorized_ as the analysis found it
IsFactorizedAfterAnalyze_Kept == isFactorized_

\* line 127: isFactorized_ = false
IsFactorizedAfterAnalyze == FALSE

\* line 121: klu_analyze returns a new symbolic object for the stored pattern,
\* or NULL; lnz is the predicted factor nonzero count it records.  A pattern that
\* is not well-formed is always refused.
KluAnalyze(ok, id, n, Ap, Ai, lnz) ==
    IF ok /\ ValidPattern(n, Ap, Ai) THEN [id |-> id, n |-> n, Ap |-> Ap, Ai |-> Ai, lnz |-> lnz] ELSE Null

\* artifacts created so far
AllocCount == Cardinality(liveSym \cup freedSym) + Cardinality(liveNum \cup freedNum)

NextSymId == Cardinality(liveSym \cup freedSym) + 1

NextNumId == Cardinality(liveNum \cup freedNum) + 1

\* a variant that does not release the symbolic object it replaces
ReleaseOldSymbolic_Never == FALSE

\* line 110: if (symbolic_)
ReleaseOldSymbolic == symbolic_ # Null

analyzeStructure(n, colPointers, rowIndices) ==
    \E ok \in BOOLEAN : \E lnz \in (IF ok THEN LnzSet(n) ELSE {0}) :
      /\ ok => AllocCount < MaxAllocs
      /\ LET hadSym == ReleaseOldSymbolic
             \* lines 110-112: klu_free_symbolic releases and nulls symbolic_
             live1 == IF hadSym THEN liveSym \ {symbolic_.id} ELSE liveSym
             freed1 == IF hadSym THEN freedSym \cup {symbolic_.id} ELSE freedSym
             bad1 == badFree \/ (hadSym /\ symbolic_.id \notin liveSym)
             freeCalls == IF hadSym THEN <<Call("klu_free_symbolic", symbolic_, Null)>>
                          ELSE <<>>
             sym == KluAnalyze(ok, NextSymId, n, colPointers, rowIndices, lnz)
         IN /\ pre' = Snapshot
            /\ n_' = n
            /\ Ap_' = colPointers
            /\ Ai_' = rowIndices
            /\ symbolic_' = sym
            /\ liveSym' = IF sym # Null THEN live1 \cup {sym.id} ELSE live1
            /\ freedSym' = freed1
            /\ badFree' = bad1
            /\ peak' = Peak(<<liveSym, live1, liveSym'>>, <<liveNum, liveNum, liveNum>>)
            /\ warned' = FALSE
            /\ calls' = freeCalls \o <<Call("klu_analyze", Null, Null)>>
            /\ isAnalyzed_' = IsAnalyzedAfterAnalyze(sym)
            /\ isFactorized_' = IsFactorizedAfterAnalyze
            /\ ret' = isAnalyzed_'
            /\ lastOp' = "analyzeStructure"
            /\ arg' = NoValue
            /\ result' = NoValue
            /\ resultAssigned' = {}
            /\ stats' = NoValue
            /\ UNCHANGED <<numeric_, liveNum, freedNum, lastFactorTime_,
                           lastSolveTime_, written>>

\* ------------------------------------------------------- cleanup
\* a variant that leaves the released handles in place
HandleAfterCleanup_Dangling(h) == h

\* lines 273 and 278: numeric_ = nullptr, symbolic_ = nullptr after the release
HandleAfterCleanup(h) == Null

\* a variant that releases the numeric object only while the solver counts as
\* factorized
CleanupReleasesNumeric_ByFlag == isFactorized_

\* line 271: if (numeric_)
CleanupReleasesNumeric == numeric_ # Null

\* a variant that also clears the stored pattern
PatternAfterCleanup_Cleared == [n |-> 0, Ap |-> <<>>, Ai |-> <<>>]

\* lines 270-283 assign neither n_ nor Ap_ nor Ai_
PatternAfterCleanup == [n |-> n_, Ap |-> Ap_, Ai |-> Ai_]

cleanup ==
    LET hadNum == CleanupReleasesNumeric
        hadSym == symbolic_ # Null
        numCalls == IF hadNum THEN <<Call("klu_free_numeric", Null, numeric_)>> ELSE <<>>
        symCalls == IF hadSym THEN <<Call("klu_free_symbolic", symbolic_, Null)>> ELSE <<>>
    IN /\ pre' = Snapshot
       \* lines 271-274
       /\ numeric_' = IF hadNum THEN HandleAfterCleanup(numeric_) ELSE numeric_
       /\ liveNum' = IF hadNum THEN liveNum \ {numeric_.id} ELSE liveNum
       /\ freedNum' = IF hadNum THEN freedNum \cup {numeric_.id} ELSE freedNum
       \* lines 276-279
       /\ symbolic_' = IF hadSym THEN HandleAfterCleanup(symbolic_) ELSE symbolic_
       /\ liveSym' = IF hadSym THEN liveSym \ {symbolic_.id} ELSE liveSym
       /\ freedSym' = IF hadSym THEN freedSym \cup {symbolic_.id} ELSE freedSym
       /\ badFree' = (badFree \/ (hadNum /\ numeric_.id \notin liveNum)
                              \/ (hadSym /\ symbolic_.id \notin liveSym))
       /\ peak' = PeakUnchanged
       /\ warned' = FALSE
       /\ calls' = numCalls \o symCalls
       \* lines 281-282
       /\ isAnalyzed_' = FALSE
       /\ isFactorized_' = FALSE
       /\ ret' = FALSE
       /\ lastOp' = "cleanup"
       /\ arg' = NoValue
       /\ result' = NoValue
       /\ resultAssigned' = {}
       /\ stats' = NoValue
       /\ n_' = PatternAfterCleanup.n
       /\ Ap_' = PatternAfterCleanup.Ap
       /\ Ai_' = PatternAfterCleanup.Ai
       /\ UNCHANGED <<lastFactorTime_, lastSolveTime_, written>>

\* ------------------------------------------------------- factorizeMatrix
\* a variant without the guard
FactorizeRejected_Never == FALSE

\* line 155: if (!isAnalyzed_) return false
FactorizeRejected == ~isAnalyzed_

\* a variant that marks the solver factorized whatever klu_factor returned
IsFactorizedAfterFactor_Always(num) == TRUE

\* line 174: isFactorized_ = (numeric_ != nullptr)
IsFactorizedAfterFactor(num) == num # Null

\* lines 167-169: klu_factor(Ap_, Ai_, values.data(), symbolic_, &common_) returns
\* a new numeric object built from the values and the symbolic object passed, or
\* NULL.  It reads one value per stored nonzero: with fewer values than that the
\* read runs past the array (short), and what was factorized is indeterminate.
KluFactor(ok, id, values, sym) ==
    IF ok THEN [id |-> id, sym |-> sym.id, values |-> values,
                short |-> Len(values) < Len(Ai_)]
    ELSE Null

\* a variant that hands klu_factor the values of the factorization it replaces
FactorInput_Stale(values) == IF numeric_ # Null THEN numeric_.values ELSE values

\* line 168: the values handed to klu_factor are the caller's array
FactorInput(values) == values

\* line 160: if (numeric_)
ReleaseOldNumeric == numeric_ # Null

factorizeMatrix(values) ==
    IF FactorizeRejected
    THEN /\ pre' = Snapshot
         /\ ret' = FALSE
         /\ lastOp' = "factorizeMatrix"
         /\ arg' = values
         /\ calls' = <<>>
         /\ peak' = PeakUnchanged
         /\ warned' = FALSE
         /\ result' = NoValue
         /\ resultAssigned' = {}
         /\ stats' = NoValue
         /\ UNCHANGED <<fields, heap, written>>
    ELSE \E ok \in BOOLEAN, elapsed \in Doubles :
           /\ ok => AllocCount < MaxAllocs
           /\ LET hadNum == ReleaseOldNumeric
                  \* lines 160-162: klu_free_numeric releases and nulls numeric_
                  live1 == IF hadNum THEN liveNum \ {numeric_.id} ELSE liveNum
                  freed1 == IF hadNum THEN freedNum \cup {numeric_.id} ELSE freedNum
                  bad1 == badFree \/ (hadNum /\ numeric_.id \notin liveNum)
                  freeCalls == IF hadNum
                               THEN <<Call("klu_free_numeric", Null, numeric_)>>
                               ELSE <<>>
                  num == KluFactor(ok, NextNumId, FactorInput(values), symbolic_)
              IN /\ pre' = Snapshot
                 /\ numeric_' = num
                 /\ liveNum' = IF num # Null THEN live1 \cup {num.id} ELSE live1
                 /\ freedNum' = freed1
                 /\ badFree' = bad1
                 /\ peak' = Peak(<<liveSym, liveSym, liveSym>>, <<liveNum, live1, liveNum'>>)
                 /\ warned' = FALSE
                 /\ calls' = freeCalls \o <<Call("klu_factor", symbolic_, Null)>>
                 \* line 172
                 /\ lastFactorTime_' = elapsed
                 /\ written' = written \cup {"lastFactorTime_"}
                 /\ isFactorized_' = IsFactorizedAfterFactor(numeric_')
                 /\ ret' = isFactorized_'
                 /\ lastOp' = "factorizeMatrix"
                 /\ arg' = values
                 /\ result' = NoValue
                 /\ resultAssigned' = {}
                 /\ stats' = NoValue
                 /\ UNCHANGED <<symbolic_, n_, Ap_, Ai_, isAnalyzed_, lastSolveTime_,
                                liveSym, freedSym>>

\* ------------------------------------------------------- solveSystem
\* a variant that tests the numeric handle instead of the flag
SolveNotFactorized_ByHandle == numeric_ = Null

\* line 199: if (!isFactorized_)
SolveNotFactorized == ~isFactorized_

\* a variant that rejects only a right-hand side that is too short
SolveDimMismatch_TooShort(rhs) == Len(rhs) < n_

\* line 204: if (rhs.size() != static_cast<size_t>(n_))
SolveDimMismatch(rhs) == SizeDiffers(Len(rhs), n_)

\* a variant that starts the iteration count at 1
FreshResult_OneIteration(f) ==
    [success |-> FALSE, solution |-> <<>>, errorMessage |-> "", iterations |-> 1,
     conditionNumber |-> 0, factorizationTime |-> f, solveTime |-> 0]

\* lines 194-197: a SolveResult with success, iterations and factorizationTime
\* assigned; solution and errorMessage are default-constructed empty.  f is the
\* value the read of lastFactorTime_ on line 197 yields.  conditionNumber and
\* solveTime are not assigned here: they hold no determinate value (the 0 stands
\* for it) until a later line assigns them.
FreshResult(f) ==
    [success |-> FALSE, solution |-> <<>>, errorMessage |-> "", iterations |-> 0,
     conditionNumber |-> 0, factorizationTime |-> f, solveTime |-> 0]

\* the values the read of lastFactorTime_ on line 197 can yield
FactorTimeRead ==
    IF "lastFactorTime_" \in written THEN {lastFactorTime_} ELSE Doubles

\* the fields of a SolveResult that hold a determinate value after lines 194-197
FreshAssigned ==
    {"success", "solution", "errorMessage", "iterations"}
        \cup (IF "lastFactorTime_" \in written THEN {"factorizationTime"} ELSE {})

\* lines 215-216: klu_solve overwrites the copy of rhs with the solution of the
\* system held by the numeric object (status 1), or reports failure
KluSolve(status, num, rhs) ==
    IF status = 1 THEN <<"solution", num.values, rhs>> ELSE <<"unspecified", Len(rhs)>>

\* a variant that takes the status for an error code, 0 meaning no error
SuccessAfterSolve_ZeroIsOk(solveStatus) == solveStatus = 0

\* line 222: result.success = (solveStatus == 1)
SuccessAfterSolve(solveStatus) == solveStatus = 1

\* a variant that drops the factorization when the solve fails
IsFactorizedAfterSolve_Dropped(success) == success

\* lines 215-240 do not assign isFactorized_, whatever the solve reports
IsFactorizedAfterSolve(success) == isFactorized_

\* line 235: the tolerance 1e-10, in units of 1e-12
ResidualTolerance == 100

\* lines 289-294: return 1e-12, in units of 1e-12, whatever b and x are
computeResidualNorm(b, x) == 1

solveSystem(rhs) ==
    \E f \in FactorTimeRead :
      /\ pre' = Snapshot
      /\ lastOp' = "solveSystem"
      /\ arg' = rhs
      /\ ret' = FALSE
      /\ stats' = NoValue
      /\ peak' = PeakUnchanged
      /\ IF SolveNotFactorized
         THEN \* lines 199-202
              /\ result' = [FreshResult(f) EXCEPT !.errorMessage = "not factorized"]
              /\ resultAssigned' = FreshAssigned
              /\ calls' = <<>>
              /\ warned' = FALSE
              /\ UNCHANGED <<fields, heap, written>>
         ELSE IF SolveDimMismatch(rhs)
         THEN \* lines 204-207
              /\ result' = [FreshResult(f) EXCEPT !.errorMessage = "dimension mismatch"]
              /\ resultAssigned' = FreshAssigned
              /\ calls' = <<>>
              /\ warned' = FALSE
              /\ UNCHANGED <<fields, heap, written>>
         ELSE \E solveStatus \in {0, 1}, elapsed \in Doubles :
                LET x == KluSolve(solveStatus, numeric_, rhs)
                    \* line 222
                    success == SuccessAfterSolve(solveStatus)
                IN
                \* line 219
                /\ lastSolveTime_' = elapsed
                /\ written' = written \cup {"lastSolveTime_"}
                /\ isFactorized_' = IsFactorizedAfterSolve(success)
                /\ IF success
                   THEN \* lines 221-240
                        \E condest \in Doubles :
                          /\ result' = [FreshResult(f) EXCEPT
                                          !.solution = x,
                                          !.solveTime = elapsed,
                                          !.success = TRUE,
                                          !.conditionNumber = condest,
                                          !.iterations = 1]
                          /\ resultAssigned' =
                               FreshAssigned \cup {"solveTime", "conditionNumber"}
                          /\ calls' = <<Call("klu_solve", symbolic_, numeric_),
                                        Call("klu_condest", symbolic_, numeric_)>>
                          \* lines 233-237
                          /\ warned' = (computeResidualNorm(rhs, x) > ResidualTolerance)
                   ELSE \* lines 221-227
                        /\ result' = [FreshResult(f) EXCEPT
                                        !.solution = x,
                                        !.solveTime = elapsed,
                                        !.errorMessage = "solve failed"]
                        /\ resultAssigned' = FreshAssigned \cup {"solveTime"}
                        /\ calls' = <<Call("klu_solve", symbolic_, numeric_)>>
                        /\ warned' = FALSE
                /\ UNCHANGED <<symbolic_, numeric_, n_, Ap_, Ai_, isAnalyzed_,
                               lastFactorTime_, heap>>

\* ------------------------------------------------------- getStatistics
\* line 256: (double)symbolic_->lnz / (double)Ai_.size(), kept as the pair of
\* operands of the floating-point division; line 251 sets 0.0
FillFactor ==
    IF symbolic_ # Null THEN [num |-> symbolic_.lnz, den |-> Len(Ai_)]
    ELSE [num |-> 0, den |-> 1]

getStatistics ==
    \E condest \in Doubles :
      /\ pre' = Snapshot
      /\ lastOp' = "getStatistics"
      /\ arg' = NoValue
      /\ peak' = PeakUnchanged
      /\ warned' = FALSE
      /\ ret' = FALSE
      /\ result' = NoValue
      /\ resultAssigned' = {}
      /\ stats' = [rows |-> n_, cols |-> n_, nnz |-> Len(Ai_),
                   fillFactor |-> FillFactor, isSymmetric |-> FALSE,
                   conditionEstimate |-> IF numeric_ # Null THEN condest ELSE 0]
      /\ calls' = IF numeric_ # Null
                  THEN <<Call("klu_condest", symbolic_, numeric_)>>
                  ELSE <<>>
      /\ UNCHANGED <<fields, heap, written>>

\* ------------------------------------------------------- specification
Next ==
    \/ \E i \in DOMAIN PatternSeq :
         analyzeStructure(PatternSeq[i].n, PatternSeq[i].Ap, PatternSeq[i].Ai)
    \/ \E i \in DOMAIN ValueSeq : factorizeMatrix(ValueSeq[i])
    \/ \E i \in DOMAIN RhsSeq : solveSystem(RhsSeq[i])
    \/ getStatistics
    \/ cleanup

Spec == Init /\ [][Next]_vars

\* ======================================================= properties

\* C1: after any sequence of operations, whatever KLU returned, the solver is in
\* one of the states Empty, Analyzed, Factorized: the flags are never
\* (isAnalyzed_, isFactorized_) = (false, true), and Factorized implies that the
\* symbolic object of a successful analysis is still held.
C1_LifecycleStates ==
    /\ State \in {"Empty", "Analyzed", "Factorized"}
    /\ ~(~isAnalyzed_ /\ isFactorized_)
    /\ isFactorized_ => (symbolic_ # Null /\ symbolic_.id \in liveSym)

\* a failed analysis has just been run on a factorized solver
C1_Witness ==
    /\ lastOp = "analyzeStructure"
    /\ pre.state = "Factorized"
    /\ ~ret

\* C2 (as claimed): right after analyzeStructure returns, with either outcome, the
\* solver holds no numeric factorization.
C2_NoNumericAfterAnalyze ==
    lastOp = "analyzeStructure" => (numeric_ = Null /\ liveNum = {})

\* C3: analyzeStructure returns true and leaves state Analyzed when klu_analyze
\* returned a symbolic object, and returns false and leaves state Empty when it
\* returned NULL, whatever the state it was called in.
C3_AnalyzeOutcome ==
    lastOp = "analyzeStructure" =>
        /\ symbolic_ # Null => (ret /\ State = "Analyzed")
        /\ symbolic_ = Null => (~ret /\ State = "Empty")
        /\ "klu_analyze" \in CallNames

\* a successful analysis has just been run on a factorized solver
C3_Witness ==
    /\ lastOp = "analyzeStructure"
    /\ pre.state = "Factorized"
    /\ ret
    /\ State = "Analyzed"

\* C4: factorizeMatrix called in state Empty returns false, does not call
\* klu_factor (nor release anything), and leaves the state Empty.
C4_FactorizeInEmpty ==
    (lastOp = "factorizeMatrix" /\ pre.state = "Empty") =>
        /\ ~ret
        /\ calls = <<>>
        /\ State = "Empty"
        /\ symbolic_.id = pre.symbolic
        /\ numeric_.id = pre.numeric

\* factorizeMatrix has just been called, with values of the right length, on a
\* solver left Empty by a failed analysis
C4_Witness ==
    /\ lastOp = "factorizeMatrix"
    /\ pre.state = "Empty"
    /\ n_ > 0
    /\ Len(arg) = Len(Ai_)
    /\ freedSym # {}

\* C5: when factorizeMatrix is called in state Analyzed or Factorized and
\* klu_factor fails, it returns false and leaves state Analyzed with the same
\* symbolic object and pattern still held.
C5_FailedFactorStep ==
    (lastOp' = "factorizeMatrix" /\ State \in {"Analyzed", "Factorized"}
                                 /\ numeric_' = Null) =>
        /\ ~ret'
        /\ State' = "Analyzed"
        /\ symbolic_ # Null
        /\ "klu_factor" \in CallNames'
        /\ UNCHANGED <<symbolic_, n_, Ap_, Ai_, liveSym, freedSym>>

\* C5: a solveSystem call made right after such a failed factorization reports
\* "not factorized".
C5_SolveAfterFailedFactor ==
    (lastOp = "factorizeMatrix" /\ pre.state \in {"Analyzed", "Factorized"} /\ ~ret
                                /\ lastOp' = "solveSystem") =>
        /\ ~result'.success
        /\ result'.errorMessage = "not factorized"

\* C5: a failed numeric factorization leaves the solver Analyzed, and the next
\* solveSystem reports "not factorized".
C5_FailedFactorization ==
    [][C5_FailedFactorStep /\ C5_SolveAfterFailedFactor]_vars

\* solveSystem has just been called right after a factorization that failed on a
\* factorized solver
C5_Witness ==
    /\ lastOp = "solveSystem"
    /\ pre.op = "factorizeMatrix"
    /\ pre.state = "Analyzed"
    /\ pre.numeric = 0
    /\ freedNum # {}
    /\ result.errorMessage = "not factorized"

\* C6 (as claimed): when the number of values differs from the nonzero count of
\* the stored pattern, factorizeMatrix returns false without calling klu_factor,
\* without changing the state and without releasing the numeric object.
C6_LengthValidated ==
    (lastOp = "factorizeMatrix" /\ Len(arg) # Len(Ai_)) =>
        /\ ~ret
        /\ calls = <<>>
        /\ State = pre.state
        /\ numeric_.id = pre.numeric

\* C7: in every state other than Factorized, solveSystem returns success = false
\* with the "not factorized" message, calls no KLU routine and changes no field
\* of the solver, whatever the right-hand side.
C7_SolveStep ==
    (lastOp' = "solveSystem" /\ State # "Factorized") =>
        /\ ~result'.success
        /\ result'.errorMessage = "not factorized"
        /\ calls' = <<>>
        /\ UNCHANGED <<fields, heap>>

\* C7: every solveSystem step taken outside state Factorized is the "not
\* factorized" failure and leaves the solver as it was.
C7_SolveNotFactorized == [][C7_SolveStep]_vars

\* solveSystem has just been called with a right-hand side of the stored
\* dimension on an Analyzed solver that still holds the numeric object of the
\* superseded analysis
C7_Witness ==
    /\ lastOp = "solveSystem"
    /\ pre.state = "Analyzed"
    /\ numeric_ # Null
    /\ Len(arg) = n_
    /\ ~result.success

\* C8 (as claimed): solveSystem with rhs.length != n returns success = false with
\* the dimension-mismatch message, without calling klu_solve or changing state.
C8_DimMismatchAlways ==
    (lastOp = "solveSystem" /\ SizeDiffers(Len(arg), n_)) =>
        /\ ~result.success
        /\ result.errorMessage = "dimension mismatch"
        /\ calls = <<>>
        /\ State = pre.state

\* C8 (amended): in state Factorized, solveSystem with rhs.length != n returns
\* success = false with the dimension-mismatch message, calls no KLU routine and
\* changes no field of the solver.
C8_DimMismatchStep ==
    (lastOp' = "solveSystem" /\ State = "Factorized" /\ SizeDiffers(Len(arg'), n_)) =>
        /\ ~result'.success
        /\ result'.errorMessage = "dimension mismatch"
        /\ calls' = <<>>
        /\ UNCHANGED <<fields, heap>>

\* C8 (amended): every solveSystem step taken in state Factorized with
\* rhs.length != n is the dimension-mismatch failure and leaves the solver as it
\* was.
C8_DimMismatchWhenFactorized == [][C8_DimMismatchStep]_vars

\* solveSystem has just been called on a Factorized solver of dimension 1 with an
\* empty right-hand side
C8_Witness ==
    /\ lastOp = "solveSystem"
    /\ pre.state = "Factorized"
    /\ n_ = 1
    /\ Len(arg) = 0
    /\ result.errorMessage = "dimension mismatch"

\* C9: after cleanup, from any state, the state is Empty, both handles are null
\* and every artifact has been released, none of them twice.
C9_AfterCleanup ==
    lastOp = "cleanup" =>
        /\ State = "Empty"
        /\ symbolic_ = Null
        /\ numeric_ = Null
        /\ liveSym = {}
        /\ liveNum = {}
        /\ ~badFree
        /\ pre.symbolic # 0 => pre.symbolic \in freedSym
        /\ pre.numeric # 0 => pre.numeric \in freedNum

\* C9: a cleanup right after a cleanup releases nothing and changes no field.
C9_SecondCleanupStep ==
    (lastOp = "cleanup" /\ lastOp' = "cleanup") =>
        /\ calls' = <<>>
        /\ UNCHANGED <<fields, heap>>

\* C9: cleanup is valid from every state and idempotent.
C9_CleanupIdempotent == []C9_AfterCleanup /\ [][C9_SecondCleanupStep]_vars

\* cleanup has just been called a second time in a row, the first one having
\* released a symbolic and a numeric object
C9_Witness ==
    /\ lastOp = "cleanup"
    /\ pre.op = "cleanup"
    /\ freedSym # {}
    /\ freedNum # {}
    /\ calls = <<>>

\* C10: a successful factorizeMatrix in state Factorized ends in state
\* Factorized, does not call klu_analyze, keeps the symbolic object and the
\* pattern, releases the superseded numeric object and holds a new one built
\* from the new values and the held symbolic object.
C10_RefactorStep ==
    (lastOp' = "factorizeMatrix" /\ State = "Factorized" /\ ret') =>
        /\ State' = "Factorized"
        /\ "klu_analyze" \notin CallNames'
        /\ UNCHANGED <<symbolic_, n_, Ap_, Ai_, isAnalyzed_>>
        /\ numeric_' # Null
        /\ numeric_'.values = arg'
        /\ numeric_'.sym = symbolic_.id
        /\ numeric_'.id # numeric_.id
        /\ numeric_.id \in freedNum'
        /\ liveNum' = {numeric_'.id}

\* C10: the triangular solve is given the numeric object currently held.
C10_SolveStep ==
    (lastOp' = "solveSystem" /\ "klu_solve" \in CallNames') =>
        /\ calls'[1].num = numeric_
        /\ calls'[1].sym = symbolic_
        /\ numeric_.id \in liveNum

\* C10: re-factorizing does not require re-analysis and supersedes the old values.
C10_Refactorization == [][C10_RefactorStep /\ C10_SolveStep]_vars

\* a factorization with new values of the same length has just succeeded on a
\* Factorized solver
C10_Witness ==
    /\ lastOp = "factorizeMatrix"
    /\ pre.state = "Factorized"
    /\ ret
    /\ Len(arg) = Len(pre.values)
    /\ Len(arg) = Len(Ai_)
    /\ Len(arg) > 0
    /\ arg # pre.values

\* C11: at every point, the points inside analyzeStructure and factorizeMatrix
\* included, at most one symbolic and at most one numeric artifact are live; an
\* operation that creates an artifact has released the one it replaces first.
C11_ReleaseBeforeReacquire ==
    /\ Cardinality(liveSym) <= 1
    /\ Cardinality(liveNum) <= 1
    /\ peak.sym <= 1
    /\ peak.num <= 1
    /\ (lastOp = "analyzeStructure" /\ pre.symbolic # 0) =>
           /\ calls[1].fn = "klu_free_symbolic"
           /\ calls[1].sym.id = pre.symbolic
           /\ calls[2].fn = "klu_analyze"
    /\ (lastOp = "factorizeMatrix" /\ pre.numeric # 0 /\ pre.state # "Empty") =>
           /\ calls[1].fn = "klu_free_numeric"
           /\ calls[1].num.id = pre.numeric
           /\ calls[2].fn = "klu_factor"

\* an analysis has just replaced a symbolic object by a new one
C11_Witness ==
    /\ lastOp = "analyzeStructure"
    /\ pre.symbolic # 0
    /\ symbolic_ # Null
    /\ symbolic_.id # pre.symbolic
    /\ peak.sym = 1

\* the status klu_solve reported to the last solveSystem: 1, 0, or -1 when
\* klu_solve was not called
C13_SolveStatus ==
    IF lastOp = "solveSystem" /\ "klu_solve" \in CallNames
    THEN (IF result.solution[1] = "solution" THEN 1 ELSE 0)
    ELSE -1

C12_SolveStep ==
    (lastOp' = "solveSystem" /\ State = "Factorized") =>
        /\ State' = "Factorized"
        /\ UNCHANGED <<symbolic_, numeric_, n_, Ap_, Ai_, heap>>
        /\ \A i \in 1..Len(calls') : /\ calls'[i].sym = symbolic_
                                     /\ calls'[i].num = numeric_

\* C12: solveSystem in state Factorized, whether the triangular solve succeeds
\* or fails, leaves the state Factorized and the symbolic handle, the numeric
\* handle and the stored pattern unchanged; consecutive solves use the same
\* factorization.
C12_SolveKeepsFactorization == [][C12_SolveStep]_vars

\* a solve that failed inside klu_solve, right after another solve, with the
\* factorization still in place
C12_Witness ==
    /\ lastOp = "solveSystem"
    /\ pre.op = "solveSystem"
    /\ pre.state = "Factorized"
    /\ C13_SolveStatus = 0
    /\ State = "Factorized"
    /\ numeric_.id = pre.numeric

\* C13: in state Factorized with a right-hand side of length n, success is true
\* exactly when klu_solve reports success; a residual above the tolerance only
\* produces a warning and never turns a successful solve into a failure.
C13_SuccessIffSolveStatus ==
    (lastOp = "solveSystem" /\ pre.state = "Factorized" /\ Len(arg) = n_) =>
        /\ C13_SolveStatus \in {0, 1}
        /\ result.success <=> (C13_SolveStatus = 1)
        /\ warned <=> (/\ C13_SolveStatus = 1
                       /\ computeResidualNorm(arg, result.solution) > ResidualTolerance)
        /\ warned => result.success

\* a solve in state Factorized for which klu_solve reported success
C13_Witness ==
    /\ lastOp = "solveSystem"
    /\ pre.state = "Factorized"
    /\ Len(arg) = n_
    /\ C13_SolveStatus = 1
    /\ result.success
    /\ result.errorMessage = ""

\* the claim as stated: every result of solveSystem carries iterations = 1
C14_IterationsAlwaysOne ==
    lastOp = "solveSystem" => result.iterations = 1

\* C14: every result of solveSystem carries iterations = 1 when success is
\* true and iterations = 0 on each failure path (not factorized, dimension
\* mismatch, klu_solve failure).
C14_IterationsBySuccess ==
    lastOp = "solveSystem" =>
        /\ result.success => result.iterations = 1
        /\ ~result.success =>
              /\ result.iterations = 0
              /\ result.errorMessage \in
                    {"not factorized", "dimension mismatch", "solve failed"}

\* a solve that klu_solve failed has returned its result
C14_Witness ==
    /\ lastOp = "solveSystem"
    /\ ~result.success
    /\ result.errorMessage = "solve failed"
    /\ result.iterations = 0

\* the quotient num / den of two non-negative doubles is >= 1.0: for den = 0
\* the quotient is +infinity when num > 0 and NaN, which compares false, when
\* num = 0
C15_AtLeastOne(ff) ==
    \/ ff.den > 0 /\ ff.num >= ff.den
    \/ ff.den = 0 /\ ff.num > 0

\* C15: for every valid CSC pattern, n = 0 with no nonzeros included, a
\* successful analyzeStructure followed immediately by getStatistics reports
\* fillFactor >= 1.0.
C15_FillFactorAtLeastOne ==
    (/\ lastOp = "getStatistics"
     /\ pre.op = "analyzeStructure"
     /\ isAnalyzed_
     /\ ValidPattern(n_, Ap_, Ai_)) => C15_AtLeastOne(stats.fillFactor)

\* C16: every library call that takes a numeric factorization (klu_solve,
\* klu_condest) is passed a non-null symbolic handle together with a numeric
\* object that was built from that symbolic object, the one currently held.
C16_NumericMatchesSymbolic ==
    \A i \in 1..Len(calls) :
        calls[i].fn \in {"klu_solve", "klu_condest"} =>
            /\ calls[i].sym # Null
            /\ calls[i].num # Null
            /\ calls[i].sym = symbolic_
            /\ calls[i].num.sym = calls[i].sym.id

\* C17: no artifact is leaked or released twice: every live artifact is the one
\* the solver holds, no release hits an artifact that is not live, and after
\* cleanup (which is all the destructor runs) every symbolic and numeric
\* artifact ever created has been released, a numeric object left behind by a
\* re-analysis included.
C17_NoLeakNoDoubleRelease ==
    /\ ~badFree
    /\ liveSym \cap freedSym = {}
    /\ liveNum \cap freedNum = {}
    /\ liveSym \subseteq {symbolic_.id}
    /\ liveNum \subseteq {numeric_.id}
    /\ lastOp = "cleanup" =>
          /\ liveSym = {}
          /\ liveNum = {}
          /\ freedSym = 1..Cardinality(freedSym)
          /\ freedNum = 1..Cardinality(freedNum)

\* cleanup has just released a numeric object that a re-analysis left behind
C17_Witness ==
    /\ lastOp = "cleanup"
    /\ pre.state # "Factorized"
    /\ pre.numeric # 0
    /\ pre.numeric \in freedNum
    /\ Cardinality(freedSym) >= 2
    /\ liveNum = {}

\* C18: solveSystem never reads a timing field that has not been written: the
\* factorizationTime it returns is copied from an assigned lastFactorTime_, and
\* every field of the result it returns (conditionNumber and solveTime
\* included) has been assigned on the path that returns it.
C18_NoUnassignedValue ==
    lastOp = "solveSystem" =>
        resultAssigned = {"success", "solution", "errorMessage", "iterations",
                          "conditionNumber", "factorizationTime", "solveTime"}

C19_PatternStep ==
    /\ lastOp' \in {"factorizeMatrix", "solveSystem", "getStatistics", "cleanup"} =>
          UNCHANGED <<n_, Ap_, Ai_>>
    /\ lastOp' = "factorizeMatrix" =>
          \A i \in 1..Len(calls') :
              calls'[i].fn = "klu_factor" =>
                  /\ calls'[i].sym.n = n_
                  /\ calls'[i].sym.Ap = Ap_
                  /\ calls'[i].sym.Ai = Ai_
    /\ lastOp' = "getStatistics" =>
          /\ stats'.rows = n_
          /\ stats'.cols = n_
          /\ stats'.nnz = Len(Ai_)

\* C19: the stored pattern (n, column pointers, row indices) is changed only by
\* analyzeStructure; factorizeMatrix, solveSystem, getStatistics and cleanup
\* leave it unchanged, every factorization uses the pattern of the most recent
\* analyzeStructure, and getStatistics after cleanup still reports the rows and
\* nonzero count of the last pattern although the state is Empty.
C19_PatternOnlyByAnalyze == [][C19_PatternStep]_vars

\* getStatistics right after a cleanup reports the 1 x 1 pattern analysed before
C19_Witness ==
    /\ lastOp = "getStatistics"
    /\ pre.op = "cleanup"
    /\ State = "Empty"
    /\ symbolic_ = Null
    /\ stats.rows = 1
    /\ stats.nnz = 1

====
